---- MODULE Spec2Model ----
(***************************************************************************)
(* Model of the Slack conversation bot of go-invite-me:                    *)
(*   src/slack_bot_handler.go   question dialogue (mentions and DMs)       *)
(*   src/unnamed/part_001       game dialogue with a generated invitation  *)
(*   src/unnamed/part_002       question dialogue, mentions only           *)
(*   src/handler.go             the invite API (SendInvite)                *)
(* Every in-flight HTTP request is a handler; a handler walks through      *)
(* HandleEvent one shared-state interaction or one external call at a time.*)
(* Strings are sequences of one-character strings, so that Split,          *)
(* TrimSpace, ToLower and Contains are computed and not assumed.           *)
(***************************************************************************)
EXTENDS Integers, Sequences, FiniteSets, TLC

\* ------------------------------------------------------------------ bounds
\* Number of HTTP requests that may be in flight at the same time.
NumHandlers == 2

\* Longest user_ids list of an invite request.
MaxInvitees == 3

Handlers == 1..NumHandlers

\* ------------------------------------------------------------- strings
UpperChars == <<"A", "B", "C", "D", "E", "F", "G", "H", "I", "J", "K", "L", "M",
                "N", "O", "P", "Q", "R", "S", "T", "U", "V", "W", "X", "Y", "Z">>

LowerChars == <<"a", "b", "c", "d", "e", "f", "g", "h", "i", "j", "k", "l", "m",
                "n", "o", "p", "q", "r", "s", "t", "u", "v", "w", "x", "y", "z">>

ToLowerChar(c) ==
    IF \E i \in DOMAIN UpperChars : UpperChars[i] = c
    THEN LowerChars[CHOOSE i \in DOMAIN UpperChars : UpperChars[i] = c]
    ELSE c

\* strings.ToLower
ToLower(s) == [i \in 1..Len(s) |-> ToLowerChar(s[i])]

IsSpace(c) == c \in {" ", "\t", "\n", "\r"}

RECURSIVE TrimLeft(_)
TrimLeft(s) == IF s # <<>> /\ IsSpace(Head(s)) THEN TrimLeft(Tail(s)) ELSE s

RECURSIVE TrimRight(_)
TrimRight(s) ==
    IF s # <<>> /\ IsSpace(s[Len(s)]) THEN TrimRight(SubSeq(s, 1, Len(s) - 1)) ELSE s

\* strings.TrimSpace
TrimSpace(s) == TrimRight(TrimLeft(s))

\* strings.HasPrefix
HasPrefix(s, p) == Len(p) <= Len(s) /\ SubSeq(s, 1, Len(p)) = p

\* strings.Index for a one-character separator: 0-based position, -1 if absent
IndexChar(s, c) ==
    IF \E i \in 1..Len(s) : s[i] = c
    THEN (CHOOSE i \in 1..Len(s) : s[i] = c /\ \A j \in 1..(i - 1) : s[j] # c) - 1
    ELSE -1

\* strings.Contains: scan the offsets from the left
RECURSIVE ContainsFrom(_, _, _)
ContainsFrom(s, sub, k) ==
    IF k + Len(sub) - 1 > Len(s) THEN FALSE
    ELSE IF SubSeq(s, k, k + Len(sub) - 1) = sub THEN TRUE
    ELSE ContainsFrom(s, sub, k + 1)

\* Variant of Contains in which the empty string is contained in nothing
Contains_NonEmpty(s, sub) == sub # << >> /\ ContainsFrom(s, sub, 1)

Contains(s, sub) == ContainsFrom(s, sub, 1)

\* strings.Split(s, ","): always at least one fragment
RECURSIVE Split(_)
Split(s) ==
    LET i == IndexChar(s, ",") IN
    IF i = -1 THEN <<s>>
    ELSE <<SubSeq(s, 1, i)>> \o Split(SubSeq(s, i + 2, Len(s)))

\* strings.Join(parts, ", ")
RECURSIVE Join(_, _)
Join(parts, sep) ==
    IF parts = <<>> THEN <<>>
    ELSE IF Len(parts) = 1 THEN parts[1]
    ELSE parts[1] \o sep \o Join(Tail(parts), sep)

CommaSpace == <<",", " ">>
SemiSpace == <<";", " ">>

\* Variant of removeBotMention that cuts at the first ">" without looking for "<@"
removeBotMention_AnyPrefix(text) ==
    IF IndexChar(text, ">") # -1
    THEN TrimSpace(SubSeq(text, IndexChar(text, ">") + 2, Len(text)))
    ELSE text

\* removeBotMention
removeBotMention(text) ==
    IF HasPrefix(text, <<"<", "@">>) /\ IndexChar(text, ">") # -1
    THEN TrimSpace(SubSeq(text, IndexChar(text, ">") + 2, Len(text)))
    ELSE text

\* ------------------------------------------------------------- the world
\* Event.User values of the senders
Users == {"W1", "W2"}

\* Channel identifiers: a public channel and a direct-message channel
ChanPublic == <<"C", "7">>
ChanDirect == <<"D", "7">>
Channels == {ChanPublic, ChanDirect}

\* slack.User as far as the handler reads it
BotUser == [ID |-> "UB", Name |-> <<"b", "o", "t">>, RealName |-> <<"B", "o", "t">>,
            IsBot |-> TRUE, Deleted |-> FALSE]
AmyUser == [ID |-> "U1", Name |-> <<"a", "m", "y">>,
            RealName |-> <<"A", "m", "y", " ", "B">>, IsBot |-> FALSE, Deleted |-> FALSE]
BobUser == [ID |-> "U2", Name |-> <<"b", "o", "b">>,
            RealName |-> <<"B", "o", " ", "M">>, IsBot |-> FALSE, Deleted |-> FALSE]
DanUser == [ID |-> "UD", Name |-> <<"d", "a", "n">>, RealName |-> <<"D", "a", "n">>,
            IsBot |-> FALSE, Deleted |-> TRUE]

\* The rosters GetUsers may return (the directory can change between turns)
FullRoster == <<BotUser, AmyUser, BobUser, DanUser>>
ReorderedRoster == <<BobUser, AmyUser>>
NoActiveRoster == <<BotUser, DanUser>>
Directories == {FullRoster, ReorderedRoster, NoActiveRoster}

\* Event.Text values
TextAm == <<"a", "m">>
TextTwo == <<"A", "M", ",", " ", "b", "o">>
TextBad == <<"z", ",", "a", "m", ",", " ", "q">>
TextDup == <<"b", ",", "m">>
TextBot == <<"b", "o", "t">>
TextEmpty == << >>
TextMention == <<"<", "@", "B", ">", " ", "a", "m">>
TextNoClose == <<"<", "@", "a", "m">>
TextNoOpen == <<"a", ">", "m">>
TextTrail == <<"a", "m", ",">>
TextGap == <<"z", ",", ",", "a", "m">>
TextInvite == <<"<", "@", "B", ">", " ", "/", "i", "n", "v", "i", "t", "e", " ",
                "\"", "a", "m", "\"", " ", "\"", "g", "o", "\"">>
Texts == {TextAm, TextTwo, TextBad, TextDup, TextBot, TextEmpty, TextMention,
          TextNoClose, TextNoOpen, TextTrail, TextGap, TextInvite}

\* err.Error() of the Slack client and of the composer
ErrSlack == <<"s", "l", "a", "c", "k", "_", "e", "r", "r">>
ErrGemini == <<"g", "e", "m", "_", "e", "r", "r">>

\* Text the composer may generate
Invitation == <<"j", "o", "i", "n", "!">>

\* The handler variants of the repository that are modelled
VariantQuestion == "question"
VariantGame == "game"
VariantMention == "mention"
Variants == {VariantQuestion, VariantGame}

\* ConversationState.Step
AwaitingNames == "awaiting_names"
AwaitingPayload(v) == IF v = VariantGame THEN "awaiting_game" ELSE "awaiting_question"

\* SlackEventCallback as delivered by c.BindJSON; ok = FALSE is a payload that does not parse
BadPayload == [ok |-> FALSE, Type |-> "", Challenge |-> "",
               Event |-> [Type |-> "", User |-> "", Text |-> << >>,
                          Channel |-> << >>, BotID |-> ""]]

\* The first user sends every text, the second one the plain single name
EventFields ==
    [Type : {"app_mention", "message"}, User : {"W1"}, Text : Texts,
     Channel : Channels, BotID : {""}]
    \cup [Type : {"app_mention", "message"}, User : Users, Text : {TextAm},
          Channel : Channels, BotID : {""}]

BotEventFields == [Type : {"app_mention", "message"}, User : Users, Text : {TextAm},
                   Channel : Channels, BotID : {"B1"}]

Payloads ==
    {BadPayload}
    \cup [ok : {TRUE}, Type : {"event_callback"}, Challenge : {""},
          Event : EventFields \cup BotEventFields]
    \cup [ok : {TRUE}, Type : {"url_verification"}, Challenge : {"tok1", "tok2"},
          Event : {BadPayload.Event} \cup [Type : {"app_mention"}, User : Users,
                                           Text : {TextAm}, Channel : {ChanDirect},
                                           BotID : {""}]]

\* The runs explored.
\*   "serial":     every payload above, one request at a time (the first handler
\*                 takes them all), every roster;
\*   "concurrent": NumHandlers overlapping requests of one user;
\*   "pair":       two overlapping requests of two users.
\* The overlapping runs deliver direct messages with the one name "am", which the
\* roster returned resolves or leaves unmatched.
Scenarios == {"serial", "concurrent", "pair"}

OverlapPayloads(users) ==
    [ok : {TRUE}, Type : {"event_callback"}, Challenge : {""},
     Event : [Type : {"message"}, User : users, Text : {TextAm},
              Channel : {ChanDirect}, BotID : {""}]]

ScenarioPayloads(sc) ==
    IF sc = "serial" THEN Payloads
    ELSE IF sc = "concurrent" THEN OverlapPayloads({"W1"})
    ELSE OverlapPayloads(Users)

ScenarioDirectories(sc) ==
    IF sc = "serial" THEN Directories ELSE {FullRoster, NoActiveRoster}

\* The handlers that take requests in a scenario
ScenarioHandlers(sc) ==
    IF sc = "serial" THEN {1}
    ELSE IF sc = "concurrent" THEN Handlers
    ELSE {1, 2}

\* ------------------------------------------------------- the name matching
\* Variant of FilterUsers that forgets to drop bot and deleted accounts
FilterUsers_KeepAll(users) == users

\* slack_bot_handler.go:125-132
RECURSIVE FilterUsers(_)
FilterUsers(users) ==
    IF users = << >> THEN << >>
    ELSE IF ~Head(users).IsBot /\ ~Head(users).Deleted
         THEN <<Head(users)>> \o FilterUsers(Tail(users))
         ELSE FilterUsers(Tail(users))

RealNames(users) == [i \in 1..Len(users) |-> users[i].RealName]

\* Variant of UserMatches that lowers the directory names but not the input
UserMatches_CaseSensitive(user, inputName) ==
    \/ Contains(ToLower(user.Name), inputName)
    \/ Contains(ToLower(user.RealName), inputName)

\* slack_bot_handler.go:142-143
UserMatches(user, inputName) ==
    \/ Contains(ToLower(user.Name), ToLower(inputName))
    \/ Contains(ToLower(user.RealName), ToLower(inputName))

\* Variant of FirstMatch without the break: the last matching entry wins
FirstMatch_NoBreak(validUsers, inputName, k) ==
    LET hits == {j \in k..Len(validUsers) : UserMatches(validUsers[j], inputName)}
    IN IF hits = {} THEN 0 ELSE CHOOSE j \in hits : \A i \in hits : i <= j

\* the inner loop with its break: index of the entry bound to inputName, 0 if none
RECURSIVE FirstMatch(_, _, _)
FirstMatch(validUsers, inputName, k) ==
    IF k > Len(validUsers) THEN 0
    ELSE IF UserMatches(validUsers[k], inputName) THEN k
    ELSE FirstMatch(validUsers, inputName, k + 1)

\* the outer loop over trimmedNames
RECURSIVE MatchNames(_, _, _)
MatchNames(trimmedNames, validUsers, acc) ==
    IF trimmedNames = << >> THEN acc
    ELSE LET inputName == Head(trimmedNames)
             k == FirstMatch(validUsers, inputName, 1)
         IN MatchNames(Tail(trimmedNames), validUsers,
                IF k # 0
                THEN [acc EXCEPT !.matchedUserIDs = Append(@, validUsers[k].ID),
                                 !.matchedNames = Append(@, validUsers[k].RealName)]
                ELSE [acc EXCEPT !.unmatched = Append(@, inputName)])

NoMatches == [matchedUserIDs |-> << >>, matchedNames |-> << >>, unmatched |-> << >>]

\* Variant of TrimmedNames that drops the fragments that are empty once trimmed
TrimmedNames_SkipBlank(text) ==
    LET names == Split(text)
        NotBlank(f) == f # << >>
    IN SelectSeq([i \in 1..Len(names) |-> TrimSpace(names[i])], NotBlank)

\* slack_bot_handler.go:109-113
TrimmedNames(text) == LET names == Split(text) IN [i \in 1..Len(names) |-> TrimSpace(names[i])]

\* ------------------------------------------------------------------ state
VARIABLES
    scenario,            \* which payloads arrive and whether requests overlap
    variant,             \* which handler of the repository is deployed
    conversationStates,  \* map[string]*ConversationState: user -> object id, 0 = no entry
    heap,                \* the ConversationState objects the pointers refer to
    conversationMutex,   \* 0 = unlocked, otherwise the handler holding the lock
    pc,                  \* where each handler is in HandleEvent
    local,               \* the local variables and the HTTP response of each handler
    sendInvite           \* the request of the invite API in flight and its goroutines

vars == <<scenario, variant, conversationStates, heap, conversationMutex, pc, local,
          sendInvite>>

\* One object per map entry plus one per in-flight handler is all that can be referenced
ObjIds == 1..(Cardinality(Users) + NumHandlers)

\* A slot of the heap that holds no object
NoState == [Step |-> "", RecipientUserIDs |-> << >>, RecipientUserNames |-> << >>]

\* Reply texts: the literal of the source with the places of its two variable parts
NoReply == [tmpl |-> "", a |-> << >>, b |-> << >>]
Greeting ==
    [tmpl |-> "Hi! Who do you want to message? Please provide a comma separated list of names.",
     a |-> << >>, b |-> << >>]
FetchErrorReply(err) ==
    [tmpl |-> "Error fetching users for matching: %a", a |-> err, b |-> << >>]
UnmatchedReply(unmatched, allValidNames) ==
    [tmpl |-> "Could not match the following names: %a.\nValid user names include: %b.\nPlease provide a correct comma separated list of names.",
     a |-> Join(unmatched, CommaSpace), b |-> Join(allValidNames, CommaSpace)]
MatchedReply(v, matchedNames) ==
    [tmpl |-> IF v = VariantGame
              THEN "Matched recipients: %a.\nWhat game do you want to invite them to?"
              ELSE "Matched recipients: %a.\nWhat do you want to ask?",
     a |-> Join(matchedNames, CommaSpace), b |-> << >>]
\* part_002: the reply of the names step, which lists both lists
MentionReply(matchedNames, unmatched) ==
    [tmpl |-> IF Len(matchedNames) > 0 /\ Len(unmatched) > 0
              THEN "Matched recipients: %a.\nCould not match: %b.\nWhat do you want to ask?"
              ELSE IF Len(matchedNames) > 0
              THEN "Matched recipients: %a.\nWhat do you want to ask?"
              ELSE IF Len(unmatched) > 0
              THEN "Could not match: %b.\nWhat do you want to ask?"
              ELSE "What do you want to ask?",
     a |-> Join(matchedNames, CommaSpace), b |-> Join(unmatched, CommaSpace)]
UserInfoErrorReply(err) ==
    [tmpl |-> "Error fetching your user info: %a", a |-> err, b |-> << >>]
ComposerErrorReply(err) ==
    [tmpl |-> "Error generating invitation: %a", a |-> err, b |-> << >>]
FailedReply(v, sendErrors) ==
    [tmpl |-> IF v = VariantGame
              THEN "Failed to send invitation to some recipients: %a"
              ELSE "Failed to send question to some recipients: %a",
     a |-> Join(sendErrors, SemiSpace), b |-> << >>]
SuccessReply(v) ==
    [tmpl |-> IF v = VariantGame
              THEN "Your invitation was sent successfully!"
              ELSE "Your question was sent successfully!",
     a |-> << >>, b |-> << >>]

\* http.StatusOK, http.StatusBadRequest, http.StatusInternalServerError
StatusOK == 200
StatusBadRequest == 400
StatusInternalServerError == 500

\* A sendMessage(channel, text) call
sendMessage(channel, text) == [channel |-> channel, text |-> text]
NoCall == sendMessage(<< >>, NoReply)

\* A handler that has no request
IdleLocal ==
    [eventCallback |-> BadPayload,   \* the payload bound by BindJSON
     userID |-> "", channelID |-> << >>, text |-> << >>,
     state |-> 0,            \* the pointer read from the map, 0 once it is dead
     step |-> "",            \* state.Step as read by the dispatch
     users |-> << >>,        \* the roster GetUsers returned
     message |-> << >>,      \* question / invitation forwarded to the recipients
     rcpts |-> << >>,        \* the slice the delivery loop ranges over
     idx |-> 0,              \* position of the delivery loop
     sendErrors |-> << >>,
     sent |-> << >>,         \* PostMessage calls made to recipients: <<id, text, ok>>
     reply |-> NoCall,       \* the sendMessage call of this request
     replied |-> FALSE,      \* the sendMessage call has returned
     then |-> "",            \* what follows the sendMessage call
     ret |-> 0,              \* status the path taken ends with
     status |-> 0,           \* status written to the response, 0 = none yet
     body |-> ""]            \* challenge echoed in the response body

\* InviteRequest as bound by c.ShouldBindJSON; ok = FALSE is a body that does not bind
BadInviteRequest == [ok |-> FALSE, UserIDs |-> << >>]

InviteUserIDs == UNION {[1..n -> {"U1", "U2"}] : n \in 0..MaxInvitees}

InviteRequests == {BadInviteRequest} \cup [ok : {TRUE}, UserIDs : InviteUserIDs]

\* fmt.Errorf("failed to send invitation to user %s: %w", uid, err).Error()
InviteError(uid, err) ==
    [tmpl |-> "failed to send invitation to user %a: %b", a |-> uid, b |-> err]

\* Variant of ErrChanCap for an unbuffered channel
ErrChanCap_Unbuffered(userIDs) == 0

\* make(chan error, len(req.UserIDs))
ErrChanCap(userIDs) == Len(userIDs)

\* No invite request in flight
IdleInvite ==
    [pc |-> "idle",
     req |-> BadInviteRequest,
     i |-> 0,               \* position of the loop that starts the goroutines
     go |-> << >>,          \* per position of UserIDs: "none", "post", "report", "exit"
     posted |-> << >>,      \* PostMessage calls that returned: <<position, ok>>
     wg |-> 0,              \* counter of the sync.WaitGroup
     cap |-> 0,             \* capacity of errChan
     errChan |-> << >>,     \* errors buffered in errChan
     errors |-> << >>,      \* the details of the response
     status |-> 0]

Init ==
    /\ scenario \in Scenarios
    /\ variant \in Variants
    /\ conversationStates = [u \in Users |-> 0]
    /\ heap = [i \in ObjIds |-> NoState]
    /\ conversationMutex = 0
    /\ pc = [h \in Handlers |-> "idle"]
    /\ local = [h \in Handlers |-> IdleLocal]
    /\ sendInvite = IdleInvite

\* Objects no map entry and no handler points to are reclaimed
Reclaim(hp, cs, lc) ==
    [i \in ObjIds |->
        IF (\E u \in Users : cs[u] = i) \/ (\E h \in Handlers : lc[h].state = i)
        THEN hp[i] ELSE NoState]

\* The address of a newly allocated ConversationState
FreshId ==
    CHOOSE i \in ObjIds :
        /\ heap[i] = NoState
        /\ \A j \in ObjIds : j < i => heap[j] # NoState

\* Variant of CanLock for a handler that skips the lock
CanLock_Always(h) == TRUE

\* sync.Mutex.Lock returns only when nobody holds the mutex
CanLock(h) == conversationMutex = 0

\* Variant of IsURLVerification that never recognises the handshake
IsURLVerification_Never(p) == FALSE

\* eventCallback.Type == "url_verification"
IsURLVerification(p) == p.Type = "url_verification"

\* strings.HasPrefix(channelID, "D")
IsDirectMessage(p) == HasPrefix(p.Event.Channel, <<"D">>)

\* eventCallback.Event.Type == "app_mention"
IsAppMention(p) == p.Event.Type = "app_mention"

\* Variant of ShouldProcess that does not look at the bot id
ShouldProcess_IgnoreBotID(p) == IsAppMention(p) \/ IsDirectMessage(p)

\* (isAppMention || isDirectMessage) && eventCallback.Event.BotID == ""
ShouldProcess(p) == (IsAppMention(p) \/ IsDirectMessage(p)) /\ p.Event.BotID = ""

\* part_002: eventCallback.Event.Type == "app_mention" && eventCallback.Event.BotID == ""
ShouldProcessMention(p) == IsAppMention(p) /\ p.Event.BotID = ""

\* Variant of BindFailed that lets every payload through
BindFailed_Never(p) == FALSE

\* c.BindJSON(&eventCallback) returned an error
BindFailed(p) == ~p.ok

\* Variant of FailureStatus that acknowledges the failure paths too
FailureStatus_OK == StatusOK

\* The status of the paths that end on a failed directory, user-info or composer call
FailureStatus == StatusInternalServerError

\* ---------------------------------------------------------------- actions
\* HandleEvent up to the lock: BindJSON, url_verification, the event filter
Receive(h, p) ==
    /\ pc[h] = "idle"
    /\ p \in ScenarioPayloads(scenario)
    /\ h \in ScenarioHandlers(scenario)
    /\ UNCHANGED <<sendInvite, scenario, variant, conversationStates, heap, conversationMutex>>
    /\ IF BindFailed(p)
       THEN /\ pc' = [pc EXCEPT ![h] = "done"]
            /\ local' = [local EXCEPT ![h].eventCallback = p,
                                      ![h].status = StatusBadRequest]
       ELSE IF IsURLVerification(p)
       THEN /\ pc' = [pc EXCEPT ![h] = "done"]
            /\ local' = [local EXCEPT ![h].eventCallback = p,
                                      ![h].status = StatusOK,
                                      ![h].body = p.Challenge]
       ELSE IF (IF variant = VariantMention THEN ShouldProcessMention(p)
                                            ELSE ShouldProcess(p))
       THEN /\ pc' = [pc EXCEPT ![h] = "lock"]
            /\ local' = [local EXCEPT
                  ![h].eventCallback = p,
                  ![h].userID = p.Event.User,
                  ![h].channelID = p.Event.Channel,
                  ![h].text = IF variant # VariantMention /\ IsAppMention(p)
                              THEN removeBotMention(p.Event.Text)
                              ELSE p.Event.Text]
       ELSE /\ pc' = [pc EXCEPT ![h] = "done"]
            /\ local' = [local EXCEPT ![h].eventCallback = p,
                                      ![h].channelID = p.Event.Channel,
                                      ![h].status = StatusOK]

\* Lock, then the map lookup and the dispatch on the step
LockLookup(h) ==
    /\ pc[h] = "lock"
    /\ CanLock(h)
    /\ UNCHANGED <<sendInvite, scenario, variant, conversationStates, heap>>
    /\ LET state == conversationStates[local[h].userID]
           exists == state # 0
       IN IF ~exists
          THEN /\ conversationMutex' = h
               /\ pc' = [pc EXCEPT ![h] = "create"]
               /\ UNCHANGED local
          ELSE IF heap[state].Step = AwaitingNames
          THEN /\ conversationMutex' = h
               /\ pc' = [pc EXCEPT ![h] = "getusers"]
               /\ local' = [local EXCEPT ![h].state = state,
                                         ![h].step = heap[state].Step]
          ELSE IF heap[state].Step = AwaitingPayload(variant)
          THEN /\ conversationMutex' = 0
               /\ pc' = [pc EXCEPT ![h] = IF variant = VariantGame
                                          THEN "userinfo" ELSE "fanout"]
               /\ local' = [local EXCEPT ![h].state = state,
                                         ![h].step = heap[state].Step,
                                         ![h].message = local[h].text]
          ELSE /\ conversationMutex' = 0
               /\ pc' = [pc EXCEPT ![h] = "done"]
               /\ local' = [local EXCEPT ![h].step = heap[state].Step,
                                         ![h].status = StatusOK]

\* Variant of Create that calls sendMessage without the unlock
Create_KeepLock(h) ==
    /\ pc[h] = "create"
    /\ conversationStates' = [conversationStates EXCEPT ![local[h].userID] = FreshId]
    /\ heap' = Reclaim([heap EXCEPT ![FreshId] = [NoState EXCEPT !.Step = AwaitingNames]],
                       conversationStates', local)
    /\ conversationMutex' = conversationMutex
    /\ pc' = [pc EXCEPT ![h] = "send"]
    /\ local' = [local EXCEPT ![h].reply = sendMessage(local[h].channelID, Greeting),
                              ![h].then = "done", ![h].ret = StatusOK]
    /\ UNCHANGED <<sendInvite, scenario, variant>>

\* No entry: store a new state, unlock, call sendMessage with the greeting
Create(h) ==
    /\ pc[h] = "create"
    /\ conversationStates' = [conversationStates EXCEPT ![local[h].userID] = FreshId]
    /\ heap' = Reclaim([heap EXCEPT ![FreshId] = [NoState EXCEPT !.Step = AwaitingNames]],
                       conversationStates', local)
    /\ conversationMutex' = 0
    /\ pc' = [pc EXCEPT ![h] = "send"]
    /\ local' = [local EXCEPT ![h].reply = sendMessage(local[h].channelID, Greeting),
                              ![h].then = "done", ![h].ret = StatusOK]
    /\ UNCHANGED <<sendInvite, scenario, variant>>

\* awaiting_names: GetUsers returns, with the lock still held since LockLookup.
\* On an error sendMessage is called before the unlock; otherwise match the names
\* and either re-prompt or store the recipients and advance.
GetUsersReturn(h) ==
    /\ pc[h] = "getusers"
    /\ UNCHANGED <<sendInvite, scenario, variant, conversationStates>>
    /\ \/ /\ pc' = [pc EXCEPT ![h] = "send_locked"]
          /\ local' = [local EXCEPT
                ![h].reply = sendMessage(local[h].channelID, FetchErrorReply(ErrSlack)),
                ![h].ret = FailureStatus]
          /\ UNCHANGED <<heap, conversationMutex>>
       \/ \E users \in ScenarioDirectories(scenario) :
            LET validUsers == FilterUsers(users)
                allValidNames == RealNames(validUsers)
                m == MatchNames(TrimmedNames(local[h].text), validUsers, NoMatches)
            IN IF variant = VariantMention
               THEN /\ heap' = [heap EXCEPT ![local[h].state] =
                          [Step |-> AwaitingPayload(variant),
                           RecipientUserIDs |-> m.matchedUserIDs,
                           RecipientUserNames |-> << >>]]
                    /\ conversationMutex' = 0
                    /\ pc' = [pc EXCEPT ![h] = "send"]
                    /\ local' = [local EXCEPT
                          ![h].users = users,
                          ![h].state = 0,
                          ![h].reply = sendMessage(local[h].channelID,
                                          MentionReply(m.matchedNames, m.unmatched)),
                          ![h].then = "done", ![h].ret = StatusOK]
               ELSE IF Len(m.unmatched) > 0
               THEN /\ conversationMutex' = 0
                    /\ pc' = [pc EXCEPT ![h] = "send"]
                    /\ local' = [local EXCEPT
                          ![h].users = users,
                          ![h].state = 0,
                          ![h].reply = sendMessage(local[h].channelID,
                                          UnmatchedReply(m.unmatched, allValidNames)),
                          ![h].then = "done", ![h].ret = StatusOK]
                    /\ UNCHANGED heap
               ELSE /\ heap' = [heap EXCEPT ![local[h].state] =
                          [Step |-> AwaitingPayload(variant),
                           RecipientUserIDs |-> m.matchedUserIDs,
                           RecipientUserNames |-> IF variant = VariantGame
                                                  THEN m.matchedNames ELSE << >>]]
                    /\ conversationMutex' = 0
                    /\ pc' = [pc EXCEPT ![h] = "send"]
                    /\ local' = [local EXCEPT
                          ![h].users = users,
                          ![h].state = 0,
                          ![h].reply = sendMessage(local[h].channelID,
                                          MatchedReply(variant, m.matchedNames)),
                          ![h].then = "done", ![h].ret = StatusOK]

\* Variant of SendLockedReturn that returns without the unlock
SendLockedReturn_KeepLock(h) ==
    /\ pc[h] = "send_locked"
    /\ pc' = [pc EXCEPT ![h] = "done"]
    /\ local' = [local EXCEPT ![h].replied = TRUE, ![h].state = 0,
                              ![h].status = local[h].ret]
    /\ UNCHANGED <<sendInvite, scenario, variant, conversationStates, heap, conversationMutex>>

\* The sendMessage call of the directory-failure path returns; unlock; status 500
SendLockedReturn(h) ==
    /\ pc[h] = "send_locked"
    /\ conversationMutex' = 0
    /\ pc' = [pc EXCEPT ![h] = "done"]
    /\ local' = [local EXCEPT ![h].replied = TRUE, ![h].state = 0,
                              ![h].status = local[h].ret]
    /\ UNCHANGED <<sendInvite, scenario, variant, conversationStates, heap>>

\* A sendMessage call made without the lock returns (its error is only logged)
SendReturn(h) ==
    /\ pc[h] = "send"
    /\ \E ok \in BOOLEAN :
         /\ pc' = [pc EXCEPT ![h] = local[h].then]
         /\ local' = [local EXCEPT
               ![h].replied = TRUE,
               ![h].status = IF local[h].then = "done" THEN local[h].ret ELSE 0]
    /\ UNCHANGED <<sendInvite, scenario, variant, conversationStates, heap, conversationMutex>>

\* part_001: GetUserInfo returns
UserInfoReturn(h) ==
    /\ pc[h] = "userinfo"
    /\ \/ /\ pc' = [pc EXCEPT ![h] = "compose"]
          /\ UNCHANGED <<local, heap>>
       \/ /\ pc' = [pc EXCEPT ![h] = "send"]
          /\ local' = [local EXCEPT
                ![h].state = 0,
                ![h].reply = sendMessage(local[h].channelID, UserInfoErrorReply(ErrSlack)),
                ![h].then = "delete",
                ![h].ret = FailureStatus]
          /\ heap' = Reclaim(heap, conversationStates, local')
    /\ UNCHANGED <<sendInvite, scenario, variant, conversationStates, conversationMutex>>

\* Variant of ComposerFailed that replies but leaves the conversation stored
ComposerFailed_NoDelete(h) ==
    /\ pc' = [pc EXCEPT ![h] = "send"]
    /\ local' = [local EXCEPT
          ![h].state = 0,
          ![h].reply = sendMessage(local[h].channelID, ComposerErrorReply(ErrGemini)),
          ![h].then = "done",
          ![h].ret = StatusInternalServerError]
    /\ heap' = Reclaim(heap, conversationStates, local')

\* What follows a failed callGoogleGemini: the error reply, then deleteConversation
ComposerFailed(h) ==
    /\ pc' = [pc EXCEPT ![h] = "send"]
    /\ local' = [local EXCEPT
          ![h].state = 0,
          ![h].reply = sendMessage(local[h].channelID, ComposerErrorReply(ErrGemini)),
          ![h].then = "delete",
          ![h].ret = FailureStatus]
    /\ heap' = Reclaim(heap, conversationStates, local')

\* part_001: callGoogleGemini returns an invitation or an error
ComposeReturn(h) ==
    /\ pc[h] = "compose"
    /\ \/ /\ pc' = [pc EXCEPT ![h] = "fanout"]
          /\ local' = [local EXCEPT ![h].message = Invitation]
          /\ UNCHANGED heap
       \/ ComposerFailed(h)
    /\ UNCHANGED <<sendInvite, scenario, variant, conversationStates, conversationMutex>>

\* The reply that follows the delivery loop
OutcomeReply(v, sendErrors) ==
    IF Len(sendErrors) > 0 THEN FailedReply(v, sendErrors) ELSE SuccessReply(v)

\* The delivery loop starts: the range expression state.RecipientUserIDs is read once
Fanout(h) ==
    /\ pc[h] = "fanout"
    /\ LET rcpts == heap[local[h].state].RecipientUserIDs
       IN IF Len(rcpts) = 0
          THEN /\ pc' = [pc EXCEPT ![h] = "send"]
               /\ local' = [local EXCEPT
                     ![h].state = 0,
                     ![h].reply = sendMessage(local[h].channelID,
                                              OutcomeReply(variant, << >>)),
                     ![h].then = "delete", ![h].ret = StatusOK]
          ELSE /\ pc' = [pc EXCEPT ![h] = "deliver"]
               /\ local' = [local EXCEPT ![h].state = 0, ![h].rcpts = rcpts,
                                         ![h].idx = 1]
    /\ heap' = Reclaim(heap, conversationStates, local')
    /\ UNCHANGED <<sendInvite, scenario, variant, conversationStates, conversationMutex>>

\* Variant of NextIdx that stays on a recipient whose delivery failed
NextIdx_RetryFailed(idx, ok) == IF ok THEN idx + 1 ELSE idx

\* The loop variable after one PostMessage, whatever its result
NextIdx(idx, ok) == idx + 1

\* One PostMessage to the recipient at idx returns; after the last one the reply is chosen
Deliver(h) ==
    /\ pc[h] = "deliver"
    /\ local[h].idx <= Len(local[h].rcpts)
    /\ \E ok \in BOOLEAN :
         LET rid == local[h].rcpts[local[h].idx]
             sendErrors == IF ok THEN local[h].sendErrors
                           ELSE Append(local[h].sendErrors, ErrSlack)
             sent == Append(local[h].sent, <<rid, local[h].message, ok>>)
             idx == NextIdx(local[h].idx, ok)
             last == idx > Len(local[h].rcpts)
         IN /\ pc' = [pc EXCEPT ![h] = IF last THEN "send" ELSE "deliver"]
            /\ local' = [local EXCEPT
                  ![h].sendErrors = sendErrors,
                  ![h].sent = sent,
                  ![h].idx = idx,
                  ![h].reply = IF last
                               THEN sendMessage(local[h].channelID,
                                                OutcomeReply(variant, sendErrors))
                               ELSE NoCall,
                  ![h].then = IF last THEN "delete" ELSE "",
                  ![h].ret = IF last THEN StatusOK ELSE 0]
    /\ UNCHANGED <<sendInvite, scenario, variant, conversationStates, heap, conversationMutex>>

\* Variant of DeleteEntry that empties the whole map
DeleteEntry_All(cs, userID) == [u \in DOMAIN cs |-> 0]

\* Variant of DeleteEntry that leaves the entry in the map
DeleteEntry_Keep(cs, userID) == cs

\* delete(h.conversationStates, userID)
DeleteEntry(cs, userID) == [cs EXCEPT ![userID] = 0]

\* deleteConversation, then c.Status
Delete(h) ==
    /\ pc[h] = "delete"
    /\ CanLock(h)
    /\ conversationStates' = DeleteEntry(conversationStates, local[h].userID)
    /\ heap' = Reclaim(heap, conversationStates', local)
    /\ conversationMutex' = 0
    /\ pc' = [pc EXCEPT ![h] = "done"]
    /\ local' = [local EXCEPT ![h].status = local[h].ret]
    /\ UNCHANGED <<sendInvite, scenario, variant>>

\* The response has been written and the request goroutine ends
Return(h) ==
    /\ pc[h] = "done"
    /\ pc' = [pc EXCEPT ![h] = "idle"]
    /\ local' = [local EXCEPT ![h] = IdleLocal]
    /\ heap' = Reclaim(heap, conversationStates, local')
    /\ UNCHANGED <<sendInvite, scenario, variant, conversationStates, conversationMutex>>

Next ==
    \E h \in Handlers :
        \/ \E p \in Payloads : Receive(h, p)
        \/ LockLookup(h)
        \/ Create(h)
        \/ GetUsersReturn(h)
        \/ SendLockedReturn(h)
        \/ SendReturn(h)
        \/ UserInfoReturn(h)
        \/ ComposeReturn(h)
        \/ Fanout(h)
        \/ Deliver(h)
        \/ Delete(h)
        \/ Return(h)

Spec == Init /\ [][Next]_vars

\* The steps of a request that wait for nothing but the return of an external call
RunsOn(h) ==
    \/ Create(h)
    \/ GetUsersReturn(h)
    \/ SendLockedReturn(h)
    \/ SendReturn(h)
    \/ UserInfoReturn(h)
    \/ ComposeReturn(h)
    \/ Fanout(h)
    \/ Deliver(h)
    \/ Return(h)

\* Every external call returns and the goroutine is scheduled (weak fairness);
\* a goroutine waiting in Lock gets the mutex when it is released again and again
\* (sync.Mutex hands the lock to a starving waiter: strong fairness).
Fairness ==
    \A h \in Handlers :
        /\ WF_vars(RunsOn(h))
        /\ SF_vars(LockLookup(h))
        /\ SF_vars(Delete(h))

\* The question dialogue with overlapping requests of one user, which contend for
\* the lock and for the same conversation state
InitFair ==
    /\ scenario = "concurrent"
    /\ variant = VariantQuestion
    /\ conversationStates = [u \in Users |-> 0]
    /\ heap = [i \in ObjIds |-> NoState]
    /\ conversationMutex = 0
    /\ pc = [h \in Handlers |-> "idle"]
    /\ local = [h \in Handlers |-> IdleLocal]
    /\ sendInvite = IdleInvite

NextFair ==
    \E h \in Handlers :
        \/ \E p \in Payloads : Receive(h, p)
        \/ LockLookup(h)
        \/ Create(h)
        \/ GetUsersReturn(h)
        \/ SendLockedReturn(h)
        \/ SendReturn(h)
        \/ Fanout(h)
        \/ Deliver(h)
        \/ Delete(h)
        \/ Return(h)

SpecFair == InitFair /\ [][NextFair]_vars /\ Fairness

\* part_002 deployed: the same handler steps without the user-info and composer calls.
\* The overlapping scenarios deliver direct messages, which this handler ignores,
\* so its requests are explored one at a time.
InitMention ==
    /\ scenario = "serial"
    /\ variant = VariantMention
    /\ conversationStates = [u \in Users |-> 0]
    /\ heap = [i \in ObjIds |-> NoState]
    /\ conversationMutex = 0
    /\ pc = [h \in Handlers |-> "idle"]
    /\ local = [h \in Handlers |-> IdleLocal]
    /\ sendInvite = IdleInvite

NextMention ==
    \E h \in Handlers :
        \/ \E p \in Payloads : Receive(h, p)
        \/ LockLookup(h)
        \/ Create(h)
        \/ GetUsersReturn(h)
        \/ SendLockedReturn(h)
        \/ SendReturn(h)
        \/ Fanout(h)
        \/ Deliver(h)
        \/ Delete(h)
        \/ Return(h)

SpecMention == InitMention /\ [][NextMention]_vars

\* ---------------------------------------------------------- the invite API
\* The variables of the conversation bot, which SendInvite does not touch
botVars == <<scenario, variant, conversationStates, heap, conversationMutex, pc, local>>

\* SendInvite up to the loop: ShouldBindJSON, the blocks, errChan and wg
InviteReceive(r) ==
    /\ sendInvite.pc = "idle"
    /\ r \in InviteRequests
    /\ UNCHANGED botVars
    /\ IF ~r.ok
       THEN sendInvite' = [IdleInvite EXCEPT !.pc = "done", !.status = StatusBadRequest]
       ELSE sendInvite' = [IdleInvite EXCEPT
               !.pc = IF Len(r.UserIDs) = 0 THEN "wait" ELSE "loop",
               !.req = r,
               !.i = 1,
               !.go = [k \in 1..Len(r.UserIDs) |-> "none"],
               !.cap = ErrChanCap(r.UserIDs)]

\* One iteration of the loop: wg.Add(1) and the go statement
InviteSpawn ==
    /\ sendInvite.pc = "loop"
    /\ UNCHANGED botVars
    /\ LET i == sendInvite.i
       IN sendInvite' = [sendInvite EXCEPT
             !.wg = @ + 1,
             !.go[i] = "post",
             !.i = i + 1,
             !.pc = IF i + 1 > Len(sendInvite.req.UserIDs) THEN "wait" ELSE "loop"]

\* PostMessage of goroutine k returns; without an error the goroutine ends (wg.Done)
InvitePostReturn(k) ==
    /\ k \in DOMAIN sendInvite.go
    /\ sendInvite.go[k] = "post"
    /\ UNCHANGED botVars
    /\ \E ok \in BOOLEAN :
         sendInvite' = [sendInvite EXCEPT
             !.posted = Append(@, <<k, ok>>),
             !.go[k] = IF ok THEN "exit" ELSE "report",
             !.wg = IF ok THEN @ - 1 ELSE @]

\* errChan <- fmt.Errorf(...) of goroutine k, which needs room in the channel, then wg.Done
InviteReport(k) ==
    /\ k \in DOMAIN sendInvite.go
    /\ sendInvite.go[k] = "report"
    /\ Len(sendInvite.errChan) < sendInvite.cap
    /\ UNCHANGED botVars
    /\ sendInvite' = [sendInvite EXCEPT
          !.errChan = Append(@, InviteError(sendInvite.req.UserIDs[k], ErrSlack)),
          !.go[k] = "exit",
          !.wg = @ - 1]

\* wg.Wait returns, close(errChan), the range over errChan, the response
InviteRespond ==
    /\ sendInvite.pc = "wait"
    /\ sendInvite.wg = 0
    /\ UNCHANGED botVars
    /\ sendInvite' = [sendInvite EXCEPT
          !.pc = "done",
          !.errors = sendInvite.errChan,
          !.errChan = << >>,
          !.status = IF Len(sendInvite.errChan) > 0
                     THEN StatusInternalServerError ELSE StatusOK]

\* The response has been written and the request goroutine ends
InviteReturn ==
    /\ sendInvite.pc = "done"
    /\ UNCHANGED botVars
    /\ sendInvite' = IdleInvite

InitInvite ==
    /\ scenario = "serial"
    /\ variant = VariantQuestion
    /\ conversationStates = [u \in Users |-> 0]
    /\ heap = [i \in ObjIds |-> NoState]
    /\ conversationMutex = 0
    /\ pc = [h \in Handlers |-> "idle"]
    /\ local = [h \in Handlers |-> IdleLocal]
    /\ sendInvite = IdleInvite

NextInvite ==
    \/ \E r \in InviteRequests : InviteReceive(r)
    \/ InviteSpawn
    \/ \E k \in 1..MaxInvitees : InvitePostReturn(k)
    \/ \E k \in 1..MaxInvitees : InviteReport(k)
    \/ InviteRespond
    \/ InviteReturn

SpecInvite == InitInvite /\ [][NextInvite]_vars

\* ------------------------------------------------------------ properties
\* Vocabulary of the properties, stated without the loops of the handler.

\* f occurs in s when case is ignored
OccursIn(f, s) ==
    \E k \in 0..(Len(s) - Len(f)) :
        \A j \in 1..Len(f) : ToLowerChar(s[k + j]) = ToLowerChar(f[j])

IsActive(u) == ~u.IsBot /\ ~u.Deleted

ActiveUsers(users) == SelectSeq(users, IsActive)

Selects(f, u) == IsActive(u) /\ (OccursIn(f, u.Name) \/ OccursIn(f, u.RealName))

Selectable(f, users) == \E i \in 1..Len(users) : Selects(f, users[i])

UnmatchedFragments(text, users) ==
    LET NotSelectable(f) == ~Selectable(f, users)
    IN SelectSeq(TrimmedNames(text), NotSelectable)

\* The handler dispatched on a state it read at the payload step
InPayloadStep(h) == local[h].step = AwaitingPayload(variant)

FailedDeliveries(h) == {i \in 1..Len(local[h].sent) : ~local[h].sent[i][3]}

UnmatchedTmpl == UnmatchedReply(<< >>, << >>).tmpl
FetchErrorTmpl == FetchErrorReply(<< >>).tmpl
UserInfoErrorTmpl == UserInfoErrorReply(<< >>).tmpl
ComposerErrorTmpl == ComposerErrorReply(<< >>).tmpl

\* The step taken is a names submission on state s whose fragments all matched
AdvancedByFullMatch(s) ==
    \E h \in Handlers :
        /\ pc[h] = "getusers"
        /\ local[h].state = s
        /\ local'[h].users \in Directories
        /\ UnmatchedFragments(local[h].text, local'[h].users) = << >>

\* C1: the first event of a user without a state stores a state at awaiting_names;
\* a stored state only moves awaiting_names -> payload step -> deleted, never back;
\* and it enters the payload step only through a names submission whose fragments
\* all matched the roster returned.
C1_StepOrder ==
    [][ /\ \A u \in Users :
             LET s == conversationStates[u]
                 t == conversationStates'[u]
             IN /\ (s = 0 /\ t # 0) => heap'[t].Step = AwaitingNames
                /\ s # 0 =>
                     \/ t = s /\ heap'[s].Step = heap[s].Step
                     \/ /\ t = s
                        /\ heap[s].Step = AwaitingNames
                        /\ heap'[s].Step = AwaitingPayload(variant)
                        /\ AdvancedByFullMatch(s)
                     \/ t = 0 /\ heap[s].Step = AwaitingPayload(variant)
        /\ \A i \in ObjIds :
             heap[i].Step = AwaitingPayload(variant)
                => heap'[i].Step \in {AwaitingPayload(variant), ""}
      ]_vars

\* C2: a names submission with an unmatched fragment leaves the state at
\* awaiting_names with its recipients unchanged, and the reply lists the unmatched
\* fragments in input order and the display names of all active roster entries.
C2_UnmatchedStays ==
    [][ \A h \in Handlers :
          (pc[h] = "getusers" /\ pc'[h] = "send") =>
             LET users == local'[h].users
                 un == UnmatchedFragments(local[h].text, users)
                 s == local[h].state
             IN un # << >> =>
                  /\ conversationStates'[local[h].userID] = s
                  /\ heap'[s] = heap[s]
                  /\ heap'[s].Step = AwaitingNames
                  /\ local'[h].reply.channel = local[h].channelID
                  /\ local'[h].reply.text.tmpl = UnmatchedTmpl
                  /\ local'[h].reply.text.a = Join(un, CommaSpace)
                  /\ local'[h].reply.text.b =
                         Join(RealNames(ActiveUsers(users)), CommaSpace)
      ]_vars

C2_Witness ==
    \E h \in Handlers :
        /\ pc[h] = "send"
        /\ local[h].reply.text.tmpl = UnmatchedTmpl
        /\ Len(UnmatchedFragments(local[h].text, local[h].users)) = 2
        /\ Len(TrimmedNames(local[h].text)) = 3
        /\ Len(ActiveUsers(local[h].users)) = 2
        /\ heap[conversationStates[local[h].userID]].Step = AwaitingNames

\* C3: a request dispatched at the payload step ends only through the deletion of
\* the user's entry, whatever the deliveries did.
C3_PayloadStepDeletes ==
    [][ \A h \in Handlers :
          (InPayloadStep(h) /\ pc[h] # "done" /\ pc'[h] = "done") =>
             /\ pc[h] = "delete"
             /\ conversationStates'[local[h].userID] = 0
      ]_vars

C3_Witness ==
    \E h \in Handlers :
        /\ pc[h] = "done"
        /\ InPayloadStep(h)
        /\ Len(local[h].sent) = 2
        /\ Cardinality(FailedDeliveries(h)) = 1
        /\ conversationStates[local[h].userID] = 0

\* C4: the payload step sends once to each stored recipient entry, in order,
\* collects one error description per failed delivery, retries nothing, and
\* replies with the success text exactly when no delivery failed.
C4_OneSendPerRecipient ==
    /\ [][ \A h \in Handlers :
             (pc[h] = "fanout" /\ pc'[h] # "fanout") =>
                /\ local'[h].rcpts = heap[local[h].state].RecipientUserIDs
                /\ local'[h].sent = << >>
                /\ local'[h].sendErrors = << >>
         ]_vars
    /\ [] \A h \in Handlers :
        LET stored == local[h].rcpts
            sent == local[h].sent
            M == Cardinality(FailedDeliveries(h))
        IN /\ (InPayloadStep(h) /\ pc[h] = "deliver") =>
                /\ Len(sent) = local[h].idx - 1
                /\ Len(sent) < Len(stored)
                /\ \A i \in 1..Len(sent) : sent[i][1] = stored[i]
                /\ Len(local[h].sendErrors) = M
           /\ (InPayloadStep(h) /\ pc[h] \in {"send", "delete", "done"}
                 /\ local[h].ret = StatusOK) =>
                /\ Len(sent) = Len(stored)
                /\ \A i \in 1..Len(sent) : sent[i][1] = stored[i]
                /\ Len(local[h].sendErrors) = M
                /\ (M = 0) <=> (local[h].reply.text = SuccessReply(variant))
                /\ (M > 0) <=> (local[h].reply.text.tmpl = FailedReply(variant, << >>).tmpl)

C4_Witness ==
    \E h \in Handlers :
        /\ pc[h] = "send"
        /\ InPayloadStep(h)
        /\ Len(local[h].rcpts) = 2
        /\ Len(local[h].sent) = 2
        /\ Cardinality(FailedDeliveries(h)) = 1
        /\ Len(local[h].sendErrors) = 1

\* The request of h took the composer-failure path
ComposerFailedAt(h) == local[h].reply.text.tmpl = ComposerErrorTmpl

\* C5: game dialogue: after a failed composer call the error reply goes to the
\* channel of the event, nothing is sent to a recipient, and the request ends
\* with the user's entry deleted.
C5_ComposerFailureAborts ==
    /\ [] \A h \in Handlers :
            ComposerFailedAt(h) =>
               /\ local[h].sent = << >>
               /\ local[h].reply = sendMessage(local[h].channelID,
                                               ComposerErrorReply(ErrGemini))
               /\ pc[h] \in {"send", "delete", "done"}
               /\ pc[h] \in {"delete", "done"} => local[h].replied
    /\ [][ \A h \in Handlers :
             /\ (pc[h] = "compose" /\ pc'[h] # "compose") =>
                   \/ pc'[h] = "fanout" /\ local'[h].message = Invitation
                   \/ ComposerFailedAt(h)'
             /\ (ComposerFailedAt(h) /\ pc[h] # "done" /\ pc'[h] = "done") =>
                   conversationStates'[local[h].userID] = 0
             /\ (ComposerFailedAt(h) /\ pc[h] = "send") => pc'[h] \in {"send", "delete"}
         ]_vars

C5_Witness ==
    \E h \in Handlers :
        /\ pc[h] = "done"
        /\ variant = VariantGame
        /\ ComposerFailedAt(h)
        /\ local[h].sent = << >>
        /\ local[h].replied
        /\ conversationStates[local[h].userID] = 0

\* C6: the existence check and the creation are one critical section: a handler
\* about to store a new state holds the lock and the user still has no entry, no
\* two handlers are about to create at once, an entry is never overwritten, the
\* greeting is emitted only by the event that stored the state, and an event that
\* takes the lock while the entry exists does not create.
C6_CheckAndCreateAtomic ==
    /\ [] \A h \in Handlers :
            pc[h] = "create" =>
               /\ conversationMutex = h
               /\ conversationStates[local[h].userID] = 0
               /\ \A g \in Handlers \ {h} : pc[g] # "create"
    /\ [][ /\ \A u \in Users :
                conversationStates[u] # 0 =>
                   conversationStates'[u] \in {conversationStates[u], 0}
            /\ \A h \in Handlers :
                /\ (local[h].reply.text # Greeting /\ local'[h].reply.text = Greeting) =>
                      /\ pc[h] = "create"
                      /\ conversationStates[local[h].userID] = 0
                      /\ conversationStates'[local[h].userID] # 0
                /\ (pc[h] = "lock" /\ pc'[h] # "lock"
                       /\ conversationStates[local[h].userID] # 0) => pc'[h] # "create"
         ]_vars

C6_Witness ==
    \E h \in Handlers, g \in Handlers :
        /\ h # g
        /\ pc[h] = "create"
        /\ pc[g] = "lock"
        /\ local[g].userID = local[h].userID

\* C7: no handler holds the conversation lock while one of its external calls
\* (GetUsers, sendMessage, GetUserInfo, the composer, a delivery) is in progress.
C7_NoLockAcrossCalls ==
    \A h \in Handlers :
        pc[h] \in {"getusers", "send_locked", "send", "userinfo", "compose", "deliver"}
            => conversationMutex # h

\* C8 as stated: every request whose payload parsed is answered with 200.
C8_AlwaysOK ==
    \A h \in Handlers :
        (pc[h] = "done" /\ local[h].eventCallback.ok) => local[h].status = StatusOK

\* C8 amended: a parsed request is answered with 500 when the directory fetch, the
\* user-info fetch or the composer call failed, and with 200 otherwise, delivery
\* failures included.
C8_StatusByOutcome ==
    \A h \in Handlers :
        (pc[h] = "done" /\ local[h].eventCallback.ok) =>
            local[h].status =
                IF local[h].reply.text.tmpl
                      \in {FetchErrorTmpl, UserInfoErrorTmpl, ComposerErrorTmpl}
                THEN StatusInternalServerError
                ELSE StatusOK

C8_Witness ==
    \E h \in Handlers, g \in Handlers :
        /\ pc[h] = "done"
        /\ local[h].reply.text.tmpl = FetchErrorTmpl
        /\ local[h].status = StatusInternalServerError
        /\ pc[g] = "done"
        /\ local[g].sendErrors # << >>
        /\ local[g].status = StatusOK

\* C9: a failed directory fetch leaves the user's state stored at awaiting_names
\* without recipients, sends a reply with the error description, and the request
\* ends with the lock released.
C9_FetchFailureKeepsState ==
    [][ \A h \in Handlers :
          /\ (pc[h] = "getusers" /\ pc'[h] = "send_locked") =>
                /\ UNCHANGED <<conversationStates, heap>>
                /\ local'[h].reply = sendMessage(local[h].channelID,
                                                 FetchErrorReply(ErrSlack))
          /\ (pc[h] = "send_locked" /\ pc'[h] # "send_locked") =>
                /\ pc'[h] = "done"
                /\ local'[h].replied
                /\ conversationMutex' = 0
                /\ conversationStates'[local[h].userID] = local[h].state
                /\ heap'[local[h].state] = heap[local[h].state]
                /\ heap'[local[h].state] = [NoState EXCEPT !.Step = AwaitingNames]
      ]_vars

C9_Witness ==
    \E h \in Handlers :
        /\ pc[h] = "done"
        /\ local[h].reply.text = FetchErrorReply(ErrSlack)
        /\ local[h].replied
        /\ conversationMutex = 0
        /\ heap[conversationStates[local[h].userID]].Step = AwaitingNames

\* C10: a url_verification payload is answered with its challenge and never
\* reaches the lock or the store, whatever event fields it carries.
C10_ChallengeEchoed ==
    /\ [] \A h \in Handlers :
            (local[h].eventCallback.ok /\ local[h].eventCallback.Type = "url_verification")
               => /\ pc[h] = "done"
                  /\ local[h].status = StatusOK
                  /\ local[h].body = local[h].eventCallback.Challenge
                  /\ local[h].state = 0
                  /\ conversationMutex # h
                  /\ local[h].reply = NoCall
    /\ [][ \A h \in Handlers :
             (local'[h].eventCallback.ok
                /\ local'[h].eventCallback.Type = "url_verification"
                /\ pc[h] = "idle" /\ pc'[h] # "idle")
                => UNCHANGED <<conversationStates, heap, conversationMutex>>
         ]_vars

C10_Witness ==
    \E h \in Handlers :
        /\ pc[h] = "done"
        /\ local[h].eventCallback.Type = "url_verification"
        /\ local[h].eventCallback.Event.Type = "app_mention"
        /\ local[h].body = "tok2"
        /\ \E u \in Users : conversationStates[u] # 0

\* A request whose payload parsed as an event of another automation
FromBot(h) ==
    /\ local[h].eventCallback.ok
    /\ local[h].eventCallback.Type = "event_callback"
    /\ local[h].eventCallback.Event.BotID # ""

\* C11: an event with a non-empty bot_id is acknowledged without taking the lock,
\* without looking up, creating or changing a conversation state, and without a
\* reply or a delivery, for every event type and channel and whatever is stored.
C11_BotEventsIgnored ==
    /\ [] \A h \in Handlers :
            FromBot(h) =>
               /\ pc[h] = "done"
               /\ local[h].status = StatusOK
               /\ local[h].state = 0
               /\ local[h].step = ""
               /\ local[h].reply = NoCall
               /\ local[h].sent = << >>
               /\ conversationMutex # h
    /\ [][ \A h \in Handlers :
             (FromBot(h)' /\ pc[h] = "idle" /\ pc'[h] # "idle")
                => UNCHANGED <<conversationStates, heap, conversationMutex>>
         ]_vars

C11_Witness ==
    \E h \in Handlers :
        /\ pc[h] = "done"
        /\ FromBot(h)
        /\ IsAppMention(local[h].eventCallback)
        /\ IsDirectMessage(local[h].eventCallback)
        /\ conversationStates[local[h].eventCallback.Event.User] # 0

\* C12: when every trimmed fragment of a names submission occurs, case ignored, in
\* the handle or display name of some active roster entry, nothing is reported
\* unmatched and the recipients stored are as many as the fragments, the i-th one
\* being an entry that the i-th fragment selects (the reply names them in that order).
C12_AllFragmentsMatched ==
    [][ \A h \in Handlers :
          (pc[h] = "getusers" /\ pc'[h] = "send") =>
             LET users == local'[h].users
                 frags == TrimmedNames(local[h].text)
                 s == local[h].state
                 ids == heap'[s].RecipientUserIDs
             IN (\A i \in 1..Len(frags) : Selectable(frags[i], users)) =>
                  /\ local'[h].reply.text.tmpl = MatchedReply(variant, << >>).tmpl
                  /\ heap'[s].Step = AwaitingPayload(variant)
                  /\ Len(ids) = Len(frags)
                  /\ \E sel \in [1..Len(frags) -> 1..Len(users)] :
                        /\ \A i \in 1..Len(frags) : Selects(frags[i], users[sel[i]])
                        /\ ids = [i \in 1..Len(frags) |-> users[sel[i]].ID]
                        /\ local'[h].reply.text.a =
                              Join([i \in 1..Len(frags) |-> users[sel[i]].RealName],
                                   CommaSpace)
      ]_vars

C12_Witness ==
    \E h \in Handlers :
        /\ pc[h] = "send"
        /\ local[h].text = TextTwo
        /\ local[h].users = FullRoster
        /\ conversationStates[local[h].userID] # 0
        /\ heap[conversationStates[local[h].userID]].RecipientUserIDs = <<"U1", "U2">>

\* Position, among the active entries, of the first one the fragment selects; 0 if none
FirstSelecting(f, active) ==
    IF \E k \in 1..Len(active) : Selects(f, active[k])
    THEN CHOOSE k \in 1..Len(active) :
            Selects(f, active[k]) /\ \A j \in 1..(k - 1) : ~Selects(f, active[j])
    ELSE 0

\* C13: the entry bound to a fragment is the first one, in roster order with bot and
\* deleted accounts left out, whose handle or display name contains the fragment
\* case-insensitively; a bot or deleted account is never bound to a fragment and
\* never listed among the valid names, and a fragment is unmatched exactly when no
\* active entry contains it.
C13_FirstMatchWins ==
    [][ \A h \in Handlers :
          (pc[h] = "getusers" /\ pc'[h] = "send") =>
             LET users == local'[h].users
                 active == ActiveUsers(users)
                 frags == TrimmedNames(local[h].text)
                 NoHit(f) == FirstSelecting(f, active) = 0
                 un == SelectSeq(frags, NoHit)
                 s == local[h].state
                 ids == heap'[s].RecipientUserIDs
             IN IF un = << >>
                THEN /\ ids = [i \in 1..Len(frags) |->
                                  active[FirstSelecting(frags[i], active)].ID]
                     /\ \A i \in 1..Len(ids) : \A k \in 1..Len(users) :
                           users[k].ID = ids[i] => IsActive(users[k])
                ELSE /\ heap'[s] = heap[s]
                     /\ local'[h].reply.text.a = Join(un, CommaSpace)
                     /\ local'[h].reply.text.b = Join(RealNames(active), CommaSpace)
      ]_vars

C13_Witness ==
    \E h \in Handlers :
        /\ pc[h] = "send"
        /\ local[h].text = TextDup
        /\ local[h].users = FullRoster
        /\ Selects(TrimmedNames(TextDup)[1], BobUser)
        /\ conversationStates[local[h].userID] # 0
        /\ heap[conversationStates[local[h].userID]].RecipientUserIDs = <<"U1", "U1">>

\* C14: a conversation state at the payload step has at least one recipient.
C14_PayloadStepHasRecipients ==
    \A i \in ObjIds :
        heap[i].Step = AwaitingPayload(variant) => Len(heap[i].RecipientUserIDs) > 0

C14_Witness ==
    \E h \in Handlers :
        /\ pc[h] = "send"
        /\ local[h].text = TextEmpty
        /\ local[h].reply.text.tmpl = MatchedReply(variant, << >>).tmpl
        /\ conversationStates[local[h].userID] # 0
        /\ Len(heap[conversationStates[local[h].userID]].RecipientUserIDs) = 1

\* C15: the recipient identifiers stored in a conversation state are pairwise
\* distinct.
C15_RecipientsUnique ==
    \A i \in ObjIds :
        LET ids == heap[i].RecipientUserIDs
        IN \A j, k \in 1..Len(ids) : ids[j] = ids[k] => j = k

\* Positions of the request whose PostMessage returned an error
InviteFailed == {sendInvite.posted[j][1] : j \in {m \in 1..Len(sendInvite.posted) :
                                                    ~sendInvite.posted[m][2]}}

\* How many of the collected error descriptions are about recipient uid
ErrorsAbout(uid) ==
    Cardinality({j \in 1..Len(sendInvite.errors) :
                    sendInvite.errors[j] = InviteError(uid, ErrSlack)})

\* C16: SendInvite starts the send to each recipient without waiting for another
\* send, responds only when every send has returned and every goroutine has ended,
\* sends once to every position of user_ids whatever failed, reports exactly one
\* error description per failed send, carrying the recipient's id, never has a
\* goroutine blocked on errChan, and answers 200 without errors exactly when no
\* send failed, the empty user_ids list included.
C16_FanOutCollectsAll ==
    LET si == sendInvite
        n == Len(si.req.UserIDs)
    IN /\ si.pc = "loop" => ENABLED InviteSpawn
       /\ si.pc \in {"wait", "done"} /\ si.req.ok =>
             \A k \in 1..n : si.go[k] # "none"
       /\ \A k \in DOMAIN si.go : si.go[k] = "report" => Len(si.errChan) < si.cap
       /\ Len(si.posted) + Cardinality({k \in DOMAIN si.go : si.go[k] = "post"})
             = Cardinality({k \in DOMAIN si.go : si.go[k] # "none"})
       /\ \A j, m \in 1..Len(si.posted) : si.posted[j][1] = si.posted[m][1] => j = m
       /\ si.pc = "done" /\ si.req.ok =>
             /\ \A k \in 1..n : si.go[k] = "exit"
             /\ {si.posted[j][1] : j \in 1..Len(si.posted)} = 1..n
             /\ Len(si.errors) = Cardinality(InviteFailed)
             /\ \A uid \in {"U1", "U2"} :
                   ErrorsAbout(uid) =
                      Cardinality({k \in InviteFailed : si.req.UserIDs[k] = uid})
             /\ si.status = IF InviteFailed = {} THEN StatusOK
                            ELSE StatusInternalServerError
             /\ n = 0 => si.status = StatusOK /\ si.errors = << >>

C16_Witness ==
    /\ sendInvite.pc = "done"
    /\ sendInvite.req.UserIDs = <<"U1", "U2", "U1">>
    /\ sendInvite.posted[1][1] = 3
    /\ InviteFailed = {1, 3}
    /\ Len(sendInvite.errors) = 2
    /\ sendInvite.status = StatusInternalServerError

\* C17: the deliveries of a payload-step request run in parallel: once the delivery
\* has begun, the send to every recipient is in flight or has returned, none is
\* held back until the send to another recipient returns.
C17_DeliveriesParallel ==
    \A h \in Handlers :
        pc[h] = "deliver" =>
            LET returned == 1..Len(local[h].sent)
                inFlight == {local[h].idx}
            IN returned \cup inFlight = 1..Len(local[h].rcpts)

\* C18: a handler about to read or write the conversation map or a field of a
\* conversation state holds the conversation lock; the read of the stored
\* recipient list at the payload step is one of these.
C18_AccessUnderLock ==
    \A h \in Handlers :
        pc[h] \in {"create", "getusers", "fanout"} => conversationMutex = h

\* C19: a payload that does not parse is answered with 400; the request takes no
\* lock, changes nothing in the store, replies nothing and delivers nothing.
C19_MalformedRejected ==
    /\ [] \A h \in Handlers :
            (pc[h] # "idle" /\ ~local[h].eventCallback.ok) =>
               /\ pc[h] = "done"
               /\ local[h].status = StatusBadRequest
               /\ local[h].state = 0
               /\ local[h].reply = NoCall
               /\ local[h].sent = << >>
               /\ conversationMutex # h
    /\ [][ \A h \in Handlers :
             (pc[h] = "idle" /\ pc'[h] # "idle" /\ ~local'[h].eventCallback.ok)
                => UNCHANGED <<conversationStates, heap, conversationMutex>>
         ]_vars

C19_Witness ==
    \E h \in Handlers :
        /\ pc[h] = "done"
        /\ ~local[h].eventCallback.ok
        /\ local[h].status = StatusBadRequest
        /\ \E u \in Users : conversationStates[u] # 0

\* The text starts with "<@" and has a ">"
HasToken(text) ==
    /\ Len(text) >= 2
    /\ text[1] = "<"
    /\ text[2] = "@"
    /\ \E i \in 1..Len(text) : text[i] = ">"

\* What follows the first ">" of a text that has a token
AfterToken(text) ==
    LET close == CHOOSE i \in 1..Len(text) :
                    text[i] = ">" /\ \A j \in 1..(i - 1) : text[j] # ">"
    IN SubSeq(text, close + 1, Len(text))

\* r is s without its leading and trailing white space
IsTrimOf(r, s) ==
    \E a \in 1..(Len(s) + 1) : \E b \in (a - 1)..Len(s) :
        /\ r = SubSeq(s, a, b)
        /\ \A j \in 1..(a - 1) : IsSpace(s[j])
        /\ \A j \in (b + 1)..Len(s) : IsSpace(s[j])
        /\ r # << >> => ~IsSpace(r[1]) /\ ~IsSpace(r[Len(r)])

\* A request that passed the event filter
Processed(h) == local[h].userID # ""

\* C20 as stated: the dialogue input of a mention is the text without its leading
\* token "<@...>" and nothing else removed; a text without the token, and the text
\* of a direct message that is not a mention, is the input as it is.
C20_TokenRemoved ==
    \A h \in Handlers :
        Processed(h) =>
            LET p == local[h].eventCallback
                raw == p.Event.Text
            IN local[h].text = IF IsAppMention(p) /\ HasToken(raw)
                               THEN AfterToken(raw) ELSE raw

\* C20 amended: the dialogue input of a mention is what follows the leading token,
\* with the white space at both ends of that remainder removed; a text without the
\* token, and the text of a direct message that is not a mention, is the input as
\* it is.
C20_TokenRemovedAndTrimmed ==
    \A h \in Handlers :
        Processed(h) =>
            LET p == local[h].eventCallback
                raw == p.Event.Text
            IN IF IsAppMention(p) /\ HasToken(raw)
               THEN IsTrimOf(local[h].text, AfterToken(raw))
               ELSE local[h].text = raw

C20_Witness ==
    \E h \in Handlers :
        /\ Processed(h)
        /\ IsAppMention(local[h].eventCallback)
        /\ local[h].eventCallback.Event.Text = TextMention
        /\ local[h].text = TextAm

\* Handler h takes a step
Steps(h) == pc'[h] # pc[h] \/ local'[h] # local[h]

\* C21: a step of a request of one user leaves alone the map entry and the stored
\* state of every other user, and every other request in flight together with the
\* state object it has read; so what the requests of user B read and produce does
\* not depend on how the requests of user A are interleaved with them.
C21_OtherUsersUntouched ==
    [][ \A h \in Handlers :
          Steps(h) =>
             /\ \A u \in Users \ {local[h].userID, local'[h].userID} :
                   /\ conversationStates'[u] = conversationStates[u]
                   /\ conversationStates[u] # 0 =>
                         heap'[conversationStates[u]] = heap[conversationStates[u]]
             /\ \A g \in Handlers \ {h} :
                   /\ pc'[g] = pc[g]
                   /\ local'[g] = local[g]
                   /\ (local[g].state # 0
                         /\ local[g].userID \notin {local[h].userID, local'[h].userID})
                        => heap'[local[g].state] = heap[local[g].state]
      ]_vars

C21_Witness ==
    \E h \in Handlers, g \in Handlers :
        /\ local[h].userID = "W1"
        /\ local[g].userID = "W2"
        /\ pc[h] = "done"
        /\ InPayloadStep(h)
        /\ conversationStates["W1"] = 0
        /\ pc[g] = "deliver"
        /\ conversationStates["W2"] # 0
        /\ heap[conversationStates["W2"]].Step = AwaitingPayload(variant)

\* C22: the request of a single mention '/invite "<names>" "<game>"' ends with a
\* message sent to the users the names select or, when none is found, with the
\* available users listed to the sender.
C22_InviteInOneMention ==
    \A h \in Handlers :
        (pc[h] = "done" /\ Processed(h) /\ IsAppMention(local[h].eventCallback)
            /\ local[h].eventCallback.Event.Text = TextInvite) =>
           \/ Len(local[h].sent) > 0
           \/ local[h].reply.text.tmpl = UnmatchedTmpl

\* C23: mention-only handler: a names submission with an unmatched fragment leaves
\* the state at awaiting_names and stores no recipients.
C23_MentionUnmatchedStays ==
    [][ \A h \in Handlers :
          (pc[h] = "getusers" /\ pc'[h] = "send"
             /\ UnmatchedFragments(local[h].text, local'[h].users) # << >>) =>
                /\ heap'[local[h].state].Step = AwaitingNames
                /\ heap'[local[h].state].RecipientUserIDs = << >>
      ]_vars

\* The fragments of a names submission that are empty once trimmed
EmptyFragments(frags) == {i \in 1..Len(frags) : frags[i] = << >>}

\* The fragments that are not empty and that no active entry contains
NamedButUnknown(frags, users) ==
    LET Unknown(f) == f # << >> /\ ~Selectable(f, users)
    IN SelectSeq(frags, Unknown)

\* What the names step of h does with the empty fragments, given that they match:
\* with every other fragment matched the state advances and each empty fragment
\* is bound to the first active entry; otherwise only the other fragments are
\* listed as unmatched.
EmptyFragmentsMatch(h) ==
    LET users == local'[h].users
        active == ActiveUsers(users)
        frags == TrimmedNames(local[h].text)
        s == local[h].state
    IN IF NamedButUnknown(frags, users) = << >>
       THEN /\ heap'[s].Step = AwaitingPayload(variant)
            /\ \A i \in EmptyFragments(frags) :
                  heap'[s].RecipientUserIDs[i] = active[1].ID
       ELSE /\ local'[h].reply.text.tmpl = UnmatchedTmpl
            /\ local'[h].reply.text.a = Join(NamedButUnknown(frags, users), CommaSpace)

\* C24 as stated: a fragment that is empty after trimming is bound to the first
\* active roster entry and is never reported unmatched.
C24_EmptyFragmentMatches ==
    [][ \A h \in Handlers :
          (pc[h] = "getusers" /\ pc'[h] = "send"
             /\ EmptyFragments(TrimmedNames(local[h].text)) # {}) =>
                EmptyFragmentsMatch(h)
      ]_vars

\* C24 amended: when the roster has an active entry, a fragment that is empty after
\* trimming is bound to the first active entry and is never reported unmatched;
\* when the roster has no active entry it is unmatched like every other fragment
\* and the state stays as it is.
C24_EmptyFragmentMatchesIfAny ==
    [][ \A h \in Handlers :
          (pc[h] = "getusers" /\ pc'[h] = "send"
             /\ EmptyFragments(TrimmedNames(local[h].text)) # {}) =>
                IF ActiveUsers(local'[h].users) # << >>
                THEN EmptyFragmentsMatch(h)
                ELSE /\ local'[h].reply.text.tmpl = UnmatchedTmpl
                     /\ local'[h].reply.text.a =
                           Join(TrimmedNames(local[h].text), CommaSpace)
                     /\ heap'[local[h].state] = heap[local[h].state]
      ]_vars

C24_Witness ==
    \E h \in Handlers :
        /\ pc[h] = "send"
        /\ local[h].text = TextTrail
        /\ local[h].users = ReorderedRoster
        /\ conversationStates[local[h].userID] # 0
        /\ heap[conversationStates[local[h].userID]].RecipientUserIDs = <<"U1", "U2">>

\* The characters of a recipient identifier
IdChars(id) ==
    IF id = "U1" THEN <<"U", "1">> ELSE IF id = "U2" THEN <<"U", "2">> ELSE <<id>>

\* The deliveries of h that failed, in the order they were made
FailedSends(h) ==
    LET Failed(d) == ~d[3]
    IN SelectSeq(local[h].sent, Failed)

\* C25: the j-th collected delivery error description contains the identifier of
\* the j-th recipient whose delivery failed.
C25_ErrorsNameRecipient ==
    \A h \in Handlers :
        /\ Len(local[h].sendErrors) = Len(FailedSends(h))
        /\ \A j \in 1..Len(local[h].sendErrors) :
              OccursIn(IdChars(FailedSends(h)[j][1]), local[h].sendErrors[j])

\* The steps at which a handler is between Lock and Unlock
LockedSteps == {"create", "getusers", "send_locked"}

\* C26: a handler holds the conversation lock only between the lookup and the
\* unlock of the path it took, never when it is about to lock (first lock or
\* deleteConversation) and never when its request has ended; and, every external
\* call returning, every request that was accepted ends, so the lock is free
\* again whenever it was taken.
C26_LockReleasedAndProgress ==
    /\ [] \A h \in Handlers :
            /\ conversationMutex = h => pc[h] \in LockedSteps
            /\ pc[h] \in LockedSteps => conversationMutex = h
    /\ \A h \in Handlers : (pc[h] # "idle") ~> (pc[h] = "done")
    /\ (conversationMutex # 0) ~> (conversationMutex = 0)

C26_Witness ==
    \E h \in Handlers, g \in Handlers :
        /\ pc[h] = "delete"
        /\ pc[g] = "send_locked"
        /\ conversationMutex = g
        /\ local[h].userID = local[g].userID

\* C27: no two requests are about to fan out the recipients of the same
\* conversation state.
C27_SingleFanout ==
    \A h \in Handlers, g \in Handlers :
        (h # g /\ pc[h] = "fanout" /\ pc[g] = "fanout" /\ local[h].state # 0)
            => local[h].state # local[g].state

\* C28: the deletion at the end of a payload step removes the state the request
\* read, which was at the payload step; a state created afterwards, still at
\* awaiting_names, is never removed by it.
C28_DeletesOnlyStateRead ==
    [][ \A u \in Users :
          (conversationStates[u] # 0 /\ conversationStates'[u] = 0)
             => heap[conversationStates[u]].Step # AwaitingNames
      ]_vars

====
